---- MODULE Spec2Model ----
(***************************************************************************)
(* InfiniView (uniview): the App component (src/App.tsx), the CanvasEditor *)
(* component (src/App.tsx, second half) and the expandImage service call   *)
(* (src/services/gemini.ts), as a state machine.                           *)
(*                                                                         *)
(* Nullable values are sequences: << >> is null/undefined, a data URL is   *)
(* the sequence of its tokens, and Some(x) wraps an object reference.      *)
(***************************************************************************)
EXTENDS Integers, Sequences, FiniteSets, TLC

VARIABLES
    appState,        \* App: useState<AppState>
    originalImage,   \* App: useState<string | null>, a data URL
    generatedImage,  \* App: useState<string | null>, a data URL
    settings,        \* App: useState<ExpansionSettings>
    errorMsg,        \* App: useState<string | null>
    pendingReads,    \* files whose FileReader.onload has not fired yet
    imageObj,        \* CanvasEditor: useState<HTMLImageElement | null>
    canvas,          \* CanvasEditor: the <canvas> element behind canvasRef
    pendingLoads,    \* CanvasEditor: image srcs whose img.onload has not fired
    redrawDue,       \* CanvasEditor: setImageObj was called and the redraw
                     \* effect it triggers has not run yet
    inflight         \* generateContent requests issued and not yet settled

vars == <<appState, originalImage, generatedImage, settings, errorMsg,
          pendingReads, imageObj, canvas, pendingLoads, redrawDue, inflight>>

----------------------------------------------------------------------------
(* Bounds of the model.                                                    *)

\* At most this many expandImage calls are pending at once.
MaxInFlight == 2

\* A response's first candidate carries at most this many content parts.
MaxParts == 3

----------------------------------------------------------------------------
(* Generic helpers.                                                        *)

Null == << >>

Some(x) == <<x>>

RECURSIVE Pow2(_)
Pow2(n) == IF n <= 0 THEN 1 ELSE 2 * Pow2(n - 1)

Max(a, b) == IF a >= b THEN a ELSE b

----------------------------------------------------------------------------
(* src/types.ts                                                            *)

AppStates == {"IDLE", "EDITING", "GENERATING", "COMPLETE", "ERROR"}

INITIAL_SETTINGS ==
    [top |-> 0, bottom |-> 0, left |-> 0, right |-> 0,
     prompt |-> "A beautiful, realistic continuation of the scene"]

Fields == {"top", "bottom", "left", "right"}

----------------------------------------------------------------------------
(* IEEE-754 double arithmetic of  Math.floor(dim * (pct / 100)).           *)
(*                                                                         *)
(* pct / 100 is rounded to a 53-bit significand: with e the binary         *)
(* exponent of pct/100, the significand is pct * 2^(52-e) / 100 rounded to *)
(* nearest, and DivRemainder is the remainder of that division: 0 when the *)
(* quotient is exact, below 50 when it was rounded down, above 50 when it  *)
(* was rounded up (50 cannot occur: pct * 2^(52-e) is a multiple of 4).    *)
(* The product dim * fl(pct/100) is rounded to nearest again.  Its floor   *)
(* differs from the exact floor only when dim*pct/100 is an integer n,     *)
(* the quotient was rounded down, and the deficit dim * r / (100*2^(52-e)) *)
(* exceeds half the spacing 2^(t-52) of the doubles just below n, where    *)
(* n lies in (2^t, 2^(t+1)]; a tie rounds to the even significand, n.      *)

RECURSIVE FloorLog2(_, _)
\* floor(log2(a / b)) for integers a, b > 0
FloorLog2(a, b) ==
    IF a >= 2 * b THEN 1 + FloorLog2(a, 2 * b)
    ELSE IF a < b THEN FloorLog2(2 * a, b) - 1
    ELSE 0

RECURSIVE Pow2Mod100(_)
Pow2Mod100(n) == IF n <= 0 THEN 1 ELSE (2 * Pow2Mod100(n - 1)) % 100

DivRemainder(pct) ==
    ((pct % 100) * Pow2Mod100(52 - FloorLog2(pct, 100))) % 100

\* Math.floor(dim * (pct / 100))
FloorPct(dim, pct) ==
    IF pct = 0 \/ dim = 0 THEN 0
    ELSE LET exact == (dim * pct) \div 100
             r     == DivRemainder(pct)
         IN  IF (dim * pct) % 100 # 0 \/ r = 0 \/ r > 50 THEN exact
             ELSE LET t == FloorLog2(2 * exact - 1, 2)
                      s == t - FloorLog2(pct, 100) - 1
                  IN  IF dim * r * Pow2(Max(0, 0 - s)) > 100 * Pow2(Max(0, s))
                      THEN exact - 1
                      ELSE exact

----------------------------------------------------------------------------
(* Pixels and the 2D canvas (the platform behind src/App.tsx:351-380).     *)
(* A pixel is <<r, g, b, a>>.  A canvas is [width, height, data]; data maps *)
(* the painted coordinates <<x, y>> to pixels and every other coordinate   *)
(* of the bitmap is transparent black, the state of a cleared bitmap.      *)

Transparent == <<0, 0, 0, 0>>

\* ctx.fillStyle = '#FFFFFF'
White == <<255, 255, 255, 255>>

\* Number of values of one 8-bit channel above zero.
Opaque == White[4]

\* One colour channel of src drawn over dst ('source-over', the context's
\* default globalCompositeOperation), outA > 0 the resulting alpha.
BlendChannel(sc, sa, dc, da, outA) ==
    (sc * sa * Opaque + dc * da * (Opaque - sa) + (outA * Opaque) \div 2)
        \div (outA * Opaque)

SourceOver(src, dst) ==
    LET sa   == src[4]
        da   == dst[4]
        outA == sa + (da * (Opaque - sa) + Opaque \div 2) \div Opaque
    IN  IF outA = 0 THEN Transparent
        ELSE <<BlendChannel(src[1], sa, dst[1], da, outA),
               BlendChannel(src[2], sa, dst[2], da, outA),
               BlendChannel(src[3], sa, dst[3], da, outA),
               outA>>

\* A <canvas> element as created: 300 x 150, transparent black.
DefaultCanvasWidth == 300

DefaultCanvasHeight == 150

BlankCanvas ==
    [width |-> DefaultCanvasWidth, height |-> DefaultCanvasHeight, data |-> << >>]

Coords(c) == (0 .. c.width - 1) \X (0 .. c.height - 1)

PixelAt(c, p) == IF p \in DOMAIN c.data THEN c.data[p] ELSE Transparent

\* canvas.width = w : resizes and clears the bitmap
SetWidth(c, w) == [width |-> w, height |-> c.height, data |-> << >>]

\* canvas.height = h : resizes and clears the bitmap
SetHeight(c, h) == [width |-> c.width, height |-> h, data |-> << >>]

InRect(p, x, y, w, h) ==
    /\ x <= p[1] /\ p[1] < x + w
    /\ y <= p[2] /\ p[2] < y + h

\* ctx.fillRect(x, y, w, h) with fillStyle style
FillRect(c, x, y, w, h, style) ==
    LET hit == {p \in Coords(c) : InRect(p, x, y, w, h)}
    IN  [c EXCEPT !.data =
            [p \in (DOMAIN c.data) \cup hit |->
                IF p \in hit THEN SourceOver(style, PixelAt(c, p))
                ELSE c.data[p]]]

\* ctx.drawImage(img, dx, dy) : unscaled, composited source-over
DrawImage(c, img, dx, dy) ==
    LET hit == {p \in Coords(c) : InRect(p, dx, dy, img.width, img.height)}
    IN  [c EXCEPT !.data =
            [p \in (DOMAIN c.data) \cup hit |->
                IF p \in hit
                THEN SourceOver(img.pixels[<<p[1] - dx, p[2] - dy>>], PixelAt(c, p))
                ELSE c.data[p]]]

----------------------------------------------------------------------------
(* The files a user can pick, and what they decode to.                     *)

SolidImage(w, h, px) ==
    [width |-> w, height |-> h,
     pixels |-> [p \in (0 .. w - 1) \X (0 .. h - 1) |-> px]]

\* a 1 x 2 image with a fully transparent and a half transparent pixel
GlassImage ==
    [width |-> 1, height |-> 2,
     pixels |-> [p \in (0 .. 0) \X (0 .. 1) |->
                    IF p[2] = 0 THEN Transparent ELSE <<0, 0, 255, 128>>]]

\* a 2 x 1 opaque image with two different pixels
PhotoImage ==
    [width |-> 2, height |-> 1,
     pixels |-> [p \in (0 .. 1) \X (0 .. 0) |->
                    IF p[1] = 0 THEN <<200, 10, 10, 255>> ELSE <<10, 10, 200, 255>>]]

FileContent(f) ==
    CASE f = "photo.png" -> PhotoImage
      [] f = "glass.png" -> GlassImage
      [] f = "wide.png"  -> SolidImage(90, 1, <<90, 90, 90, 255>>)
      [] OTHER           -> SolidImage(1, 1, <<0, 0, 0, 255>>)

\* FileReader.readAsDataURL(file): event.target.result
ReadAsDataURL(f) == <<"data:", "image/png", ";base64,", f>>

\* new Image(); img.src = src : the decoded HTMLImageElement
DecodeImage(src) == FileContent(src[4])

----------------------------------------------------------------------------
(* CanvasEditor (src/App.tsx:333-408).                                     *)

\* Redraw with the pads taken from the canvas as it is (compounding).
RedrawCompounding(c, img, s) ==
    LET w         == c.width
        h         == c.height
        padLeft   == FloorPct(w, s.left)
        padRight  == FloorPct(w, s.right)
        padTop    == FloorPct(h, s.top)
        padBottom == FloorPct(h, s.bottom)
        newWidth  == w + padLeft + padRight
        newHeight == h + padTop + padBottom
        sized     == SetHeight(SetWidth(c, newWidth), newHeight)
        filled    == FillRect(sized, 0, 0, newWidth, newHeight, White)
    IN  DrawImage(filled, img, padLeft, padTop)

\* src/App.tsx:348-386, the redraw effect, on the canvas element c
Redraw(c, img, s) ==
    LET w         == img.width
        h         == img.height
        padLeft   == FloorPct(w, s.left)
        padRight  == FloorPct(w, s.right)
        padTop    == FloorPct(h, s.top)
        padBottom == FloorPct(h, s.bottom)
        newWidth  == w + padLeft + padRight
        newHeight == h + padTop + padBottom
        sized     == SetHeight(SetWidth(c, newWidth), newHeight)
        filled    == FillRect(sized, 0, 0, newWidth, newHeight, White)
    IN  DrawImage(filled, img, padLeft, padTop)

\* canvas.toDataURL('image/png')
ToDataURL(c) ==
    <<"data:", "image/png", ";base64,",
      [format |-> "png", width |-> c.width, height |-> c.height, pixels |-> c.data]>>

\* src/App.tsx:389-394
GetCanvasDataUrl(cv) == IF cv # Null THEN ToDataURL(cv[1]) ELSE << >>

----------------------------------------------------------------------------
(* expandImage (src/services/gemini.ts).                                   *)

DataUrlMimes == {"image/png", "image/jpeg", "image/jpg", "image/webp"}

\* base64Image.replace(/^data:image\/(png|jpeg|jpg|webp);base64,/, '')
StripDataUrlPrefix(url) ==
    IF /\ Len(url) >= 3
       /\ url[1] = "data:"
       /\ url[2] \in DataUrlMimes
       /\ url[3] = ";base64,"
    THEN SubSeq(url, 4, Len(url))
    ELSE url

PromptSuffix == ". Fill the surrounding empty white space to expand the scene naturally."

FallbackPrompt ==
    "Fill the surrounding empty white space to expand the scene naturally, matching the existing style and context seamlessly."

\* src/services/gemini.ts:25-27
UserPrompt(prompt) == IF prompt # "" THEN <<prompt, PromptSuffix>> ELSE <<FallbackPrompt>>

\* src/services/gemini.ts:29-49, the request handed to ai.models.generateContent
GenerateContentRequest(base64Image, prompt) ==
    [model       |-> "gemini-2.5-flash-image",
     text        |-> UserPrompt(prompt),
     mimeType    |-> "image/png",
     data        |-> StripDataUrlPrefix(base64Image)]

NoImageError ==
    [name    |-> "Error",
     message |-> "No image data returned from Gemini. The model may have refused the request or generated only text."]

\* reading .parts of an undefined content
NoContentError ==
    [name |-> "TypeError", message |-> "Cannot read properties of undefined (reading 'parts')"]

\* for (const part of undefined)
NoPartsError ==
    [name |-> "TypeError", message |-> "parts is not iterable"]

Return(v) == [ok |-> TRUE, value |-> v, error |-> [name |-> "", message |-> ""]]

Throw(e) == [ok |-> FALSE, value |-> << >>, error |-> e]

\* part.inlineData && part.inlineData.data
HasImageData(part) ==
    /\ "inlineData" \in DOMAIN part
    /\ "data" \in DOMAIN part.inlineData
    /\ part.inlineData.data # ""

\* part.inlineData.mimeType || 'image/png'
MimeOf(part) ==
    IF "mimeType" \in DOMAIN part.inlineData /\ part.inlineData.mimeType # ""
    THEN part.inlineData.mimeType
    ELSE "image/png"

\* `data:${mime};base64,${data}`
ImageUrl(part) == <<"data:", MimeOf(part), ";base64,", part.inlineData.data>>

RECURSIVE ScanPartsLast(_, _)
\* The loop without its early return: the last image part wins.
ScanPartsLast(parts, i) ==
    IF i > Len(parts) THEN Throw(NoImageError)
    ELSE LET rest == ScanPartsLast(parts, i + 1)
         IN  IF rest.ok THEN rest
             ELSE IF HasImageData(parts[i]) THEN Return(ImageUrl(parts[i]))
             ELSE rest

RECURSIVE ScanParts(_, _)
\* src/services/gemini.ts:56-60, the loop from part index i on
ScanParts(parts, i) ==
    IF i > Len(parts) THEN Throw(NoImageError)
    ELSE IF HasImageData(parts[i]) THEN Return(ImageUrl(parts[i]))
    ELSE ScanParts(parts, i + 1)

\* src/services/gemini.ts:54-68, what expandImage settles with once
\* generateContent has settled with resp
ExpandImage(resp) ==
    IF "error" \in DOMAIN resp THEN Throw(resp.error)
    ELSE IF "candidates" \in DOMAIN resp /\ Len(resp.candidates) > 0
    THEN LET cand == resp.candidates[1]
         IN  IF "content" \notin DOMAIN cand THEN Throw(NoContentError)
             ELSE IF "parts" \notin DOMAIN cand.content THEN Throw(NoPartsError)
             ELSE ScanParts(cand.content.parts, 1)
    ELSE Throw(NoImageError)

----------------------------------------------------------------------------
(* What the generateContent call can settle with.                          *)

TextPart(t) == [text |-> t]

ImagePart(m, d) == [inlineData |-> [mimeType |-> m, data |-> d]]

\* an inline image whose mime type is not reported
UntypedImagePart(d) == [inlineData |-> [data |-> d]]

PartKinds ==
    {TextPart("here"), ImagePart("image/png", "AAAA"), ImagePart("image/jpeg", "BBBB"),
     UntypedImagePart("CCCC"), ImagePart("image/png", "")}

RECURSIVE SeqsUpTo(_, _)
SeqsUpTo(S, n) ==
    IF n = 0 THEN {<< >>}
    ELSE LET shorter == SeqsUpTo(S, n - 1)
         IN  shorter \cup {Append(q, x) : q \in shorter, x \in S}

PartsResponse(parts) == [candidates |-> <<[content |-> [parts |-> parts]]>>]

\* a rejected generateContent promise (network, auth, quota)
ServiceFailure(msg) == [error |-> [name |-> "ApiError", message |-> msg]]

\* responses without usable content: a blocked prompt (no candidates), an
\* empty candidate list, a candidate stopped without content, a content
\* without parts
BlockedPrompt == [promptFeedback |-> "SAFETY"]

EmptyCandidates == [candidates |-> << >>]

NoContentCandidate == [candidates |-> <<[finishReason |-> "SAFETY"]>>]

NoPartsCandidate == [candidates |-> <<[content |-> [role |-> "model"]]>>]

Failures == {ServiceFailure("quota exceeded"), ServiceFailure("")}

Responses ==
    {PartsResponse(ps) : ps \in SeqsUpTo(PartKinds, MaxParts)}
        \cup {BlockedPrompt, EmptyCandidates, NoContentCandidate, NoPartsCandidate}
        \cup Failures

\* the responses the App-level specification draws from
AppResponses ==
    {PartsResponse(<<TextPart("here"), ImagePart("image/png", "AAAA")>>),
     PartsResponse(<<TextPart("sorry")>>)}
        \cup Failures

----------------------------------------------------------------------------
(* App (src/App.tsx:15-316).                                               *)

NoExpansionMsg ==
    "Please add some expansion area (Top, Bottom, Left, or Right) before generating."

GenericFailureMsg == "Failed to generate image. Please try again."

\* src/App.tsx:34
UploadSettings == [INITIAL_SETTINGS EXCEPT !.right = 50]

\* src/App.tsx:133, the editor block (sliders, button, CanvasEditor) is rendered
EditorRendered(st, img) == st \in {"EDITING", "GENERATING", "ERROR"} /\ img # Null

\* src/App.tsx:271, the result view is rendered
ResultRendered(st, gen) == st = "COMPLETE" /\ gen # Null

\* src/App.tsx:46
ZeroPads(s) == s.top = 0 /\ s.bottom = 0 /\ s.left = 0 /\ s.right = 0

RequestIds(reqs) == {r.id : r \in reqs}

Awaiting(reqs) == {r \in reqs : r.response = Null}

\* React commits the App state (st, img, s) set by an event handler:
\* CanvasEditor is unmounted, mounted afresh, or kept with new props, and
\* its effects run (src/App.tsx:338-345 and 348-386).  settingsSet:
\* setSettings was called, so the settings prop is a new object.  A redraw
\* that setImageObj has made due stays due: it runs in RedrawEffect, with
\* the settings of that moment.
Commit(st, img, s, settingsSet) ==
    IF ~EditorRendered(st, img)
    THEN /\ imageObj' = Null
         /\ canvas' = Null
         /\ pendingLoads' = {}
         /\ redrawDue' = FALSE
    ELSE IF ~EditorRendered(appState, originalImage)
    THEN /\ imageObj' = Null
         /\ canvas' = Some(BlankCanvas)
         /\ pendingLoads' = {img}
         /\ redrawDue' = FALSE
    ELSE /\ imageObj' = imageObj
         /\ pendingLoads' = IF img # originalImage THEN pendingLoads \cup {img}
                            ELSE pendingLoads
         /\ redrawDue' = redrawDue
         /\ canvas' = IF imageObj # Null /\ settingsSet /\ ~redrawDue
                      THEN Some(Redraw(canvas[1], imageObj[1], s))
                      ELSE canvas

Init ==
    /\ appState = "IDLE"
    /\ originalImage = Null
    /\ generatedImage = Null
    /\ settings = INITIAL_SETTINGS
    /\ errorMsg = Null
    /\ pendingReads = {}
    /\ imageObj = Null
    /\ canvas = Null
    /\ pendingLoads = {}
    /\ redrawDue = FALSE
    /\ inflight = {}

\* src/App.tsx:25-39 up to reader.readAsDataURL(file); the file input is
\* rendered in IDLE only (src/App.tsx:109-117)
HandleFileUpload(f) ==
    /\ appState = "IDLE"
    /\ f \notin pendingReads
    /\ pendingReads' = pendingReads \cup {f}
    /\ UNCHANGED <<appState, originalImage, generatedImage, settings, errorMsg,
                   imageObj, canvas, pendingLoads, redrawDue, inflight>>

\* src/App.tsx:29-36, reader.onload
ReaderOnload(f) ==
    /\ f \in pendingReads
    /\ pendingReads' = pendingReads \ {f}
    /\ originalImage' = ReadAsDataURL(f)
    /\ appState' = "EDITING"
    /\ settings' = UploadSettings
    /\ Commit("EDITING", ReadAsDataURL(f), UploadSettings, TRUE)
    /\ UNCHANGED <<generatedImage, errorMsg, inflight>>

\* src/App.tsx:342-344, img.onload: setImageObj(img) and nothing else; the
\* canvas stays as it is until React has rendered and run the redraw effect
ImgOnload(src) ==
    /\ src \in pendingLoads
    /\ pendingLoads' = pendingLoads \ {src}
    /\ imageObj' = Some(DecodeImage(src))
    /\ redrawDue' = TRUE
    /\ UNCHANGED <<appState, originalImage, generatedImage, settings, errorMsg,
                   pendingReads, canvas, inflight>>

\* src/App.tsx:348-386, the redraw effect run for the imageObj that
\* img.onload has set, in a later task than img.onload
RedrawEffect ==
    /\ redrawDue
    /\ imageObj # Null
    /\ canvas # Null
    /\ canvas' = Some(Redraw(canvas[1], imageObj[1], settings))
    /\ redrawDue' = FALSE
    /\ UNCHANGED <<appState, originalImage, generatedImage, settings, errorMsg,
                   pendingReads, imageObj, pendingLoads, inflight>>

\* src/App.tsx:156-204, a direction slider's onChange
SetSetting(field, v) ==
    /\ EditorRendered(appState, originalImage)
    /\ settings' = [settings EXCEPT ![field] = v]
    /\ Commit(appState, originalImage, settings', TRUE)
    /\ UNCHANGED <<appState, originalImage, generatedImage, errorMsg,
                   pendingReads, inflight>>

\* src/App.tsx:211-217, the prompt textarea's onChange
SetPrompt(p) ==
    /\ EditorRendered(appState, originalImage)
    /\ settings' = [settings EXCEPT !.prompt = p]
    /\ Commit(appState, originalImage, settings', TRUE)
    /\ UNCHANGED <<appState, originalImage, generatedImage, errorMsg,
                   pendingReads, inflight>>

FreeId == CHOOSE i \in 1 .. MaxInFlight + 1 :
            /\ i \notin RequestIds(inflight)
            /\ \A j \in 1 .. i - 1 : j \in RequestIds(inflight)

\* handleGenerate without the check for an expansion.
HandleGenerateNoGuard ==
    /\ EditorRendered(appState, originalImage)
    /\ appState # "GENERATING"
    /\ canvas # Null
    /\ Cardinality(inflight) < MaxInFlight
    /\ appState' = "GENERATING"
    /\ errorMsg' = Null
    /\ inflight' = inflight \cup
         {[id       |-> FreeId,
           request  |-> GenerateContentRequest(GetCanvasDataUrl(canvas), settings.prompt),
           response |-> Null]}
    /\ Commit("GENERATING", originalImage, settings, FALSE)
    /\ UNCHANGED <<originalImage, generatedImage, settings, pendingReads>>

\* src/App.tsx:42-55 up to the await, with expandImage's synchronous part
\* (src/services/gemini.ts:14-49); the button is rendered with the editor
\* and disabled while GENERATING (src/App.tsx:221-223)
HandleGenerate ==
    /\ EditorRendered(appState, originalImage)
    /\ appState # "GENERATING"
    /\ IF canvas = Null
       THEN UNCHANGED vars
       ELSE IF ZeroPads(settings)
       THEN /\ errorMsg' = Some(NoExpansionMsg)
            /\ UNCHANGED <<appState, originalImage, generatedImage, settings,
                           pendingReads, imageObj, canvas, pendingLoads, redrawDue, inflight>>
       ELSE /\ Cardinality(inflight) < MaxInFlight
            /\ appState' = "GENERATING"
            /\ errorMsg' = Null
            /\ inflight' = inflight \cup
                 {[id       |-> FreeId,
                   request  |-> GenerateContentRequest(GetCanvasDataUrl(canvas),
                                                       settings.prompt),
                   response |-> Null]}
            /\ Commit("GENERATING", originalImage, settings, FALSE)
            /\ UNCHANGED <<originalImage, generatedImage, settings, pendingReads>>

\* the service settles the generateContent call of request r with resp
ServiceRespond(r, resp) ==
    /\ r \in inflight
    /\ r.response = Null
    /\ inflight' = (inflight \ {r}) \cup {[r EXCEPT !.response = Some(resp)]}
    /\ UNCHANGED <<appState, originalImage, generatedImage, settings, errorMsg,
                   pendingReads, imageObj, canvas, pendingLoads, redrawDue>>

\* err.message || "Failed to generate image. Please try again."
ErrorText(e) == IF e.message # "" THEN e.message ELSE GenericFailureMsg

\* A resume that issues the request again when it failed.
HandleGenerateResumeRetry(r) ==
    /\ r \in inflight
    /\ r.response # Null
    /\ LET result == ExpandImage(r.response[1])
       IN  IF result.ok
           THEN /\ inflight' = inflight \ {r}
                /\ generatedImage' = result.value
                /\ appState' = "COMPLETE"
                /\ errorMsg' = errorMsg
                /\ Commit("COMPLETE", originalImage, settings, FALSE)
           ELSE /\ inflight' = (inflight \ {r}) \cup {[r EXCEPT !.response = Null]}
                /\ UNCHANGED <<appState, errorMsg, generatedImage,
                               imageObj, canvas, pendingLoads, redrawDue>>
    /\ UNCHANGED <<originalImage, settings, pendingReads>>

\* src/services/gemini.ts:54-68 and src/App.tsx:55-61: expandImage resumes
\* with the response, and handleGenerate resumes with its outcome
HandleGenerateResume(r) ==
    /\ r \in inflight
    /\ r.response # Null
    /\ inflight' = inflight \ {r}
    /\ LET result == ExpandImage(r.response[1])
       IN  IF result.ok
           THEN /\ generatedImage' = result.value
                /\ appState' = "COMPLETE"
                /\ errorMsg' = errorMsg
                /\ Commit("COMPLETE", originalImage, settings, FALSE)
           ELSE /\ appState' = "ERROR"
                /\ errorMsg' = Some(ErrorText(result.error))
                /\ generatedImage' = generatedImage
                /\ Commit("ERROR", originalImage, settings, FALSE)
    /\ UNCHANGED <<originalImage, settings, pendingReads>>

\* src/App.tsx:64-70; New Image is rendered outside IDLE (src/App.tsx:95),
\* Start Over in the result view
HandleReset ==
    /\ appState # "IDLE"
    /\ appState' = "IDLE"
    /\ originalImage' = Null
    /\ generatedImage' = Null
    /\ settings' = INITIAL_SETTINGS
    /\ errorMsg' = Null
    /\ Commit("IDLE", Null, INITIAL_SETTINGS, TRUE)
    /\ UNCHANGED <<pendingReads, inflight>>

\* src/App.tsx:72-76; Edit Settings is rendered in the result view
HandleBackToEdit ==
    /\ ResultRendered(appState, generatedImage)
    /\ appState' = "EDITING"
    /\ generatedImage' = Null
    /\ errorMsg' = Null
    /\ Commit("EDITING", originalImage, settings, FALSE)
    /\ UNCHANGED <<originalImage, settings, pendingReads, inflight>>

----------------------------------------------------------------------------
(* Specifications.                                                         *)

\* Inputs of the App-level specification: the file picked, the slider
\* moves made and the responses received.  The prompt keeps its initial
\* value here; it reaches only the text of the request, and is edited under
\* SpecCanvas.
AppFiles == {"photo.png"}

AppSliderMoves == {<<"right", 0>>, <<"right", 50>>, <<"top", 50>>}

Next ==
    \/ \E f \in AppFiles : HandleFileUpload(f)
    \/ \E f \in AppFiles : ReaderOnload(f)
    \/ \E src \in pendingLoads : ImgOnload(src)
    \/ RedrawEffect
    \/ \E m \in AppSliderMoves : SetSetting(m[1], m[2])
    \/ HandleGenerate
    \/ \E r \in inflight, resp \in AppResponses : ServiceRespond(r, resp)
    \/ \E r \in inflight : HandleGenerateResume(r)
    \/ HandleReset
    \/ HandleBackToEdit

Spec == Init /\ [][Next]_vars

\* The CanvasEditor under its parent's props: the App in its editing phase,
\* started in the state reader.onload leaves, with every slider value and
\* every file.
CanvasFiles == {"photo.png", "glass.png", "wide.png", "dot.png"}

Percents == {0, 50, 70, 100}

Prompts == {INITIAL_SETTINGS.prompt, ""}

InitCanvas ==
    \E f \in CanvasFiles :
        /\ appState = "EDITING"
        /\ originalImage = ReadAsDataURL(f)
        /\ generatedImage = Null
        /\ settings = UploadSettings
        /\ errorMsg = Null
        /\ pendingReads = {}
        /\ imageObj = Null
        /\ canvas = Some(BlankCanvas)
        /\ pendingLoads = {ReadAsDataURL(f)}
        /\ redrawDue = FALSE
        /\ inflight = {}

NextCanvas ==
    \/ \E src \in pendingLoads : ImgOnload(src)
    \/ RedrawEffect
    \/ \E field \in Fields, v \in Percents : SetSetting(field, v)
    \/ \E p \in Prompts : SetPrompt(p)

SpecCanvas == InitCanvas /\ [][NextCanvas]_vars

\* expandImage on every response: the App with one request pending, in the
\* state upload, image load and Expand Image leave.
InitExpand ==
    LET src == ReadAsDataURL("photo.png")
        cv  == Some(Redraw(BlankCanvas, DecodeImage(src), UploadSettings))
    IN  /\ appState = "GENERATING"
        /\ originalImage = src
        /\ generatedImage = Null
        /\ settings = UploadSettings
        /\ errorMsg = Null
        /\ pendingReads = {}
        /\ imageObj = Some(DecodeImage(src))
        /\ canvas = cv
        /\ pendingLoads = {}
        /\ redrawDue = FALSE
        /\ inflight =
             {[id       |-> 1,
               request  |-> GenerateContentRequest(GetCanvasDataUrl(cv),
                                                   UploadSettings.prompt),
               response |-> Null]}

NextExpand ==
    \/ \E r \in inflight, resp \in Responses : ServiceRespond(r, resp)
    \/ \E r \in inflight : HandleGenerateResume(r)

SpecExpand == InitExpand /\ [][NextExpand]_vars

----------------------------------------------------------------------------
(* Vocabulary of the properties.                                           *)

\* the source image is decoded and the redraw effect has run for it
Drawn == imageObj # Null /\ canvas # Null /\ ~redrawDue

\* request r has a settled generateContent call and this step resumes it
Resumed(r) == r.response # Null /\ r \notin inflight'

\* the requests this step issues
NewRequests == Awaiting(inflight') \ Awaiting(inflight)

\* the content parts a response returns
ReturnedParts(resp) ==
    IF /\ "candidates" \in DOMAIN resp
       /\ Len(resp.candidates) > 0
       /\ "content" \in DOMAIN resp.candidates[1]
       /\ "parts" \in DOMAIN resp.candidates[1].content
    THEN resp.candidates[1].content.parts
    ELSE << >>

\* the part carries an inline image payload
CarriesImage(part) ==
    /\ "inlineData" \in DOMAIN part
    /\ "data" \in DOMAIN part.inlineData
    /\ part.inlineData.data # ""

ImageIndexes(parts) == {i \in 1 .. Len(parts) : CarriesImage(parts[i])}

FirstImagePart(parts) ==
    parts[CHOOSE i \in ImageIndexes(parts) : \A j \in ImageIndexes(parts) : i <= j]

ReportedMime(part) ==
    IF "mimeType" \in DOMAIN part.inlineData /\ part.inlineData.mimeType # ""
    THEN part.inlineData.mimeType
    ELSE "image/png"

IsServiceFailure(resp) == "error" \in DOMAIN resp

----------------------------------------------------------------------------
(* Properties.                                                             *)

\* C1: once the source is drawn, the canvas is w + floor(w*left/100) +
\* floor(w*right/100) wide and h + floor(h*top/100) + floor(h*bottom/100)
\* high, the floors being those of the exact quotients.
C1_ExactFloorDimensions ==
    Drawn =>
        LET w == imageObj[1].width
            h == imageObj[1].height
        IN  /\ canvas[1].width =
                 w + (w * settings.left) \div 100 + (w * settings.right) \div 100
            /\ canvas[1].height =
                 h + (h * settings.top) \div 100 + (h * settings.bottom) \div 100

\* C2: after a redraw every pixel outside the source rectangle is
\* opaque white and every pixel inside it equals the source pixel exactly,
\* transparent and half transparent source pixels included.
C2_ExactCopy ==
    Drawn =>
        LET img     == imageObj[1]
            padLeft == FloorPct(img.width, settings.left)
            padTop  == FloorPct(img.height, settings.top)
        IN  \A p \in Coords(canvas[1]) :
                IF InRect(p, padLeft, padTop, img.width, img.height)
                THEN PixelAt(canvas[1], p) = img.pixels[<<p[1] - padLeft, p[2] - padTop>>]
                ELSE PixelAt(canvas[1], p) = White

\* C3: while the source image is not decoded (imageObj is null), no step
\* hands a buffer to expandImage: no request is issued.
C3_NotReady == [][imageObj = Null => NewRequests = {}]_vars

\* C4: in IDLE every pending request has been abandoned by handleReset; when
\* the outcome of one arrives there, appState, generatedImage, originalImage
\* and errorMsg stay what they were.
C4_AbandonedOutcomeDiscarded ==
    [][(appState = "IDLE" /\ \E r \in inflight : Resumed(r))
          => UNCHANGED <<appState, generatedImage, originalImage, errorMsg>>]_vars

\* C5: at most one expandImage request is awaiting the service.
C5_SingleRequestInFlight == Cardinality(Awaiting(inflight)) <= 1

\* C6: when a response with an inline image payload among its parts is
\* handed back, the result is data:<mime>;base64,<data> of the first such
\* part, <mime> being image/png when the part reports none.
C6_FirstImageReturned ==
    [][\A r \in inflight :
          (Resumed(r) /\ ImageIndexes(ReturnedParts(r.response[1])) # {})
            => LET part == FirstImagePart(ReturnedParts(r.response[1]))
               IN  /\ appState' = "COMPLETE"
                   /\ generatedImage' =
                        <<"data:", ReportedMime(part), ";base64,", part.inlineData.data>>]_vars

\* the result built from an image part that reports no mime type
C6_Witness ==
    /\ appState = "COMPLETE"
    /\ generatedImage = <<"data:", "image/png", ";base64,", "CCCC">>
    /\ inflight = {}

\* C7: when a response without any inline image payload is handed back,
\* expandImage fails with the no-image-returned error, and generatedImage is
\* left as it was.
C7_NoImageReturned ==
    [][\A r \in inflight :
          (/\ Resumed(r)
           /\ ~IsServiceFailure(r.response[1])
           /\ ImageIndexes(ReturnedParts(r.response[1])) = {})
            => /\ appState' = "ERROR"
               /\ errorMsg' = Some(NoImageError.message)
               /\ generatedImage' = generatedImage]_vars

\* C8: with all four pads 0 no step issues a request or enters GENERATING,
\* and handleGenerate sets errorMsg and nothing else.
C8_NoExpansionRequested ==
    [][ZeroPads(settings) =>
          /\ NewRequests = {}
          /\ appState' = "GENERATING" => appState = "GENERATING"
          /\ HandleGenerate =>
               /\ errorMsg' = Some(NoExpansionMsg)
               /\ UNCHANGED <<appState, originalImage, generatedImage, settings,
                              inflight>>]_vars

\* handleGenerate has refused a generation without expansion
C8_Witness ==
    /\ ZeroPads(settings)
    /\ errorMsg = Some(NoExpansionMsg)
    /\ appState = "EDITING"
    /\ inflight = {}

\* C9: whatever settings changes and redraws came before, the canvas is the
\* one a fresh canvas gets from the source image and the current settings,
\* its size the source's plus the pads of the source's width and height.
C9_FreshFromOriginal ==
    Drawn =>
        LET img == imageObj[1]
        IN  /\ canvas[1] = Redraw(BlankCanvas, img, settings)
            /\ canvas[1].width = img.width + FloorPct(img.width, settings.left)
                                   + FloorPct(img.width, settings.right)
            /\ canvas[1].height = img.height + FloorPct(img.height, settings.top)
                                    + FloorPct(img.height, settings.bottom)

\* a canvas redrawn after sliders were moved up and back down
C9_Witness ==
    /\ Drawn
    /\ imageObj[1] = PhotoImage
    /\ settings.left = 100
    /\ settings.right = 0
    /\ settings.top = 0
    /\ settings.bottom = 100
    /\ canvas[1].width = 4
    /\ canvas[1].height = 2

\* C10: a step that enters GENERATING issues exactly one request and no
\* other step issues any; when a request's generateContent call has failed,
\* resuming it issues no request, moves the App to ERROR with the failure's
\* message (the generic one when it has none) and leaves generatedImage.
C10_OneRequestNoRetry ==
    [][/\ (appState # "GENERATING" /\ appState' = "GENERATING")
            => Cardinality(NewRequests) = 1 /\ inflight \subseteq inflight'
       /\ ~(appState # "GENERATING" /\ appState' = "GENERATING")
            => NewRequests = {}
       /\ \A r \in inflight :
            (Resumed(r) /\ IsServiceFailure(r.response[1]))
              => /\ inflight' = inflight \ {r}
                 /\ appState' = "ERROR"
                 /\ errorMsg' # Null
                 /\ errorMsg' = Some(IF r.response[1].error.message # ""
                                     THEN r.response[1].error.message
                                     ELSE GenericFailureMsg)
                 /\ generatedImage' = generatedImage]_vars

\* a failed generation reported with the generic message
C10_Witness ==
    /\ appState = "ERROR"
    /\ errorMsg = Some(GenericFailureMsg)
    /\ generatedImage = Null
    /\ inflight = {}

\* C11: the view of the current state has the image it renders: in EDITING,
\* GENERATING and ERROR originalImage is not null, and in COMPLETE
\* generatedImage is not null.
C11_ViewHasItsImage ==
    /\ appState \in {"EDITING", "GENERATING", "ERROR"} => originalImage # Null
    /\ appState = "COMPLETE" => generatedImage # Null

====
